---- MODULE Spec2Model ----
(***************************************************************************)
(* A model of microtubule_catastrophe.dist: the two distribution modules   *)
(* gamma.py and alt.py (draw, pdf, cdf, log_like, mle) and a single        *)
(* caller that invokes them one call at a time.                            *)
(*                                                                         *)
(* Numbers.  A float is a record [n, d] standing for the rational n/d in   *)
(* lowest terms, d > 0; the IEEE specials are d = 0: 1/0 is +inf, -1/0 is  *)
(* -inf and 0/0 is NaN.  Arithmetic on them follows IEEE-754 for the       *)
(* specials and is exact on the rationals (no rounding is modelled).       *)
(*                                                                         *)
(* Library values.  The transcendental functions of numpy and scipy (exp,  *)
(* log, the Gamma density, log-density and CDF) are terms: records         *)
(* [fn, num, args].  A term with fn = "num" is the float num; any other    *)
(* term is the application of fn to args, left symbolic except where the   *)
(* value is known exactly (exp(0) = 1, x - x = 0, inf * 0 = NaN, ...).      *)
(*                                                                         *)
(* Samples t are numpy arrays of non-negative floats.  A parameter tuple   *)
(* carries the type of its components, "float" (Python) or "float64"       *)
(* (numpy): the two differ in what a division by zero does.                *)
(***************************************************************************)
EXTENDS Integers, Sequences, FiniteSets, TLC

VARIABLES in_params, in_t, rg, created, last, opt

vars == <<in_params, in_t, rg, created, last, opt>>

----------------------------------------------------------------------------
(* Bounds of the model *)

\* longest sample array
MaxLen == 2
\* largest waiting time in a sample
MaxT == 2
\* largest size argument of draw
MaxSize == 1
\* the caller's generator is followed up to this many variates
MaxPos == 3
\* at most this many default generators are constructed in a run
MaxFresh == 1
\* objective evaluations the optimizer makes after the one at x0
MaxProbes == 1

----------------------------------------------------------------------------
(* Floats *)

Abs(i) == IF i < 0 THEN -i ELSE i

Sign(i) == IF i < 0 THEN -1 ELSE IF i > 0 THEN 1 ELSE 0

RECURSIVE GCD(_, _)
GCD(a, b) == IF b = 0 THEN a ELSE GCD(b, a % b)

\* n/d in lowest terms; d = 0 gives the special of n's sign
Norm(n, d) ==
    IF d = 0 THEN [n |-> Sign(n), d |-> 0]
    ELSE LET s == Sign(d)
             g == GCD(Abs(n), Abs(d))
         IN  [n |-> (s * n) \div g, d |-> Abs(d) \div g]

F(i) == [n |-> i, d |-> 1]
NaN == [n |-> 0, d |-> 0]
Inf == [n |-> 1, d |-> 0]
NegInf == [n |-> -1, d |-> 0]
Zero == F(0)

IsNaN(x) == x.d = 0 /\ x.n = 0
IsFinite(x) == x.d > 0

FNeg(x) == [n |-> -x.n, d |-> x.d]

FAbs(x) == [n |-> Abs(x.n), d |-> x.d]

FAdd(x, y) ==
    IF IsNaN(x) \/ IsNaN(y) THEN NaN
    ELSE IF x.d = 0 /\ y.d = 0 THEN (IF x.n = y.n THEN x ELSE NaN)
    ELSE IF x.d = 0 THEN x
    ELSE IF y.d = 0 THEN y
    ELSE Norm(x.n * y.d + y.n * x.d, x.d * y.d)

FSub(x, y) == FAdd(x, FNeg(y))

\* the product, cross-cancelled before multiplying
FMul(x, y) ==
    IF IsNaN(x) \/ IsNaN(y) THEN NaN
    ELSE IF x.d = 0 \/ y.d = 0 THEN Norm(Sign(x.n) * Sign(y.n), 0)
    ELSE LET g1 == GCD(Abs(x.n), y.d)
             g2 == GCD(Abs(y.n), x.d)
             a == IF g1 = 0 THEN 1 ELSE g1
             b == IF g2 = 0 THEN 1 ELSE g2
         IN  Norm((x.n \div a) * (y.n \div b), (x.d \div b) * (y.d \div a))

\* numpy float64 division: x/0 is +-inf, 0/0 and inf/inf are NaN
FDiv(x, y) ==
    IF IsNaN(x) \/ IsNaN(y) THEN NaN
    ELSE IF y.d = 0 THEN (IF x.d = 0 THEN NaN ELSE Zero)
    ELSE IF y.n = 0 THEN Norm(x.n, 0)
    ELSE IF x.d = 0 THEN Norm(x.n * Sign(y.n), 0)
    ELSE FMul(x, Norm(y.d * Sign(y.n), Abs(y.n)))

\* x <= y; every comparison with NaN is false
FLe(x, y) ==
    IF IsNaN(x) \/ IsNaN(y) THEN FALSE
    ELSE IF x.d = 0 THEN (x.n = -1 \/ (y.d = 0 /\ y.n = 1))
    ELSE IF y.d = 0 THEN y.n = 1
    ELSE x.n * y.d <= y.n * x.d

FLt(x, y) == FLe(x, y) /\ x # y

----------------------------------------------------------------------------
(* Terms: the values of numpy and scipy functions *)

Num(x) == [fn |-> "num", num |-> x, args |-> <<>>]

App(f, as) == [fn |-> f, num |-> Zero, args |-> as]

IsNum(v) == v.fn = "num"

\* a call of a function, as recorded in an outcome's list of calls
Call(f, as) == [fn |-> f, args |-> as]

\* a symbolic term stands for a finite non-zero float: the model only builds
\* one from finite arguments where the exact value is not 0
TSub(a, b) ==
    IF IsNum(a) /\ IsNum(b) THEN Num(FSub(a.num, b.num))
    ELSE IF a = b THEN Num(Zero)
    ELSE IF (IsNum(a) /\ ~IsFinite(a.num)) THEN a
    ELSE IF (IsNum(b) /\ ~IsFinite(b.num)) THEN Num(FNeg(b.num))
    ELSE App("sub", <<a, b>>)

TAdd(a, b) ==
    IF IsNum(a) /\ IsNum(b) THEN Num(FAdd(a.num, b.num))
    ELSE IF (IsNum(a) /\ ~IsFinite(a.num)) THEN a
    ELSE IF (IsNum(b) /\ ~IsFinite(b.num)) THEN b
    ELSE App("add", <<a, b>>)

TMul(a, b) ==
    IF IsNum(a) /\ IsNum(b) THEN Num(FMul(a.num, b.num))
    ELSE IF (IsNum(a) /\ (IsNaN(a.num) \/ a.num = Zero)) THEN a
    ELSE IF (IsNum(b) /\ (IsNaN(b.num) \/ b.num = Zero)) THEN b
    ELSE App("mul", <<a, b>>)

TDiv(a, b) ==
    IF IsNum(a) /\ IsNum(b) THEN Num(FDiv(a.num, b.num))
    ELSE IF (IsNum(a) /\ (IsNaN(a.num) \/ a.num = Zero)) THEN a
    ELSE IF (IsNum(b) /\ IsNaN(b.num)) THEN b
    ELSE App("div", <<a, b>>)

TNeg(a) == IF IsNum(a) THEN Num(FNeg(a.num)) ELSE App("neg", <<a>>)

\* np.exp of a float
np_exp(x) ==
    IF IsNaN(x) THEN Num(NaN)
    ELSE IF x = Inf THEN Num(Inf)
    ELSE IF x = NegInf THEN Num(Zero)
    ELSE IF x = Zero THEN Num(F(1))
    ELSE App("np.exp", <<Num(x)>>)

\* np.log of a term: log(0) = -inf, log of a negative number is NaN
np_log(v) ==
    IF ~IsNum(v) THEN App("np.log", <<v>>)
    ELSE IF IsNaN(v.num) THEN Num(NaN)
    ELSE IF v.num = Zero THEN Num(NegInf)
    ELSE IF FLt(v.num, Zero) THEN Num(NaN)
    ELSE IF v.num = Inf THEN Num(Inf)
    ELSE IF v.num = F(1) THEN Num(Zero)
    ELSE App("np.log", <<v>>)

RECURSIVE FoldAdd(_, _)
FoldAdd(vs, i) ==
    IF i > Len(vs) THEN Zero ELSE FAdd(vs[i].num, FoldAdd(vs, i + 1))

\* np.sum of an array of terms (0.0 for the empty array)
np_sum(vs) ==
    IF \A i \in 1..Len(vs) : IsNum(vs[i]) THEN Num(FoldAdd(vs, 1))
    ELSE IF \E i \in 1..Len(vs) : IsNum(vs[i]) /\ IsNaN(vs[i].num) THEN Num(NaN)
    ELSE App("np.sum", vs)

RECURSIVE SumF(_, _)
SumF(xs, i) == IF i > Len(xs) THEN Zero ELSE FAdd(xs[i], SumF(xs, i + 1))

\* np.mean of an array of floats (NaN for the empty array: 0.0 / 0)
np_mean(xs) == FDiv(SumF(xs, 1), F(Len(xs)))

\* np.var: the population variance, mean(|x - mean(x)|^2)
np_var(xs) ==
    LET m == np_mean(xs)
        sq == [i \in 1..Len(xs) |-> FMul(FSub(xs[i], m), FSub(xs[i], m))]
    IN  np_mean(sq)

\* scipy.stats.gamma: the arguments are valid when shape > 0 and scale > 0
gamma_argcheck(a, scale) == FLt(Zero, a) /\ FLt(Zero, scale)

\* scipy.stats.gamma.{pdf, logpdf, cdf}(xs, a, loc, scale), elementwise; NaN at
\* every element when the arguments are invalid
st_gamma(f, xs, a, loc, scale) ==
    [i \in 1..Len(xs) |->
        IF gamma_argcheck(a, scale)
        THEN App(f, <<Num(xs[i]), Num(a), Num(loc), Num(scale)>>)
        ELSE Num(NaN)]

\* np.isclose(a, b) with the default tolerances
RtolInv == 100000
AtolInv == 100000000

\* |a - b| <= atol + rtol * |b|, stated as |a - b| / atol <= 1 + (rtol / atol) * |b|;
\* non-finite arguments are close only when equal, and NaN is close to nothing
np_isclose(a, b) ==
    IF IsFinite(a) /\ IsFinite(b)
    THEN FLe(FMul(F(AtolInv), FAbs(FSub(a, b))),
             FAdd(F(1), FMul(F(AtolInv \div RtolInv), FAbs(b))))
    ELSE ~IsNaN(a) /\ a = b

----------------------------------------------------------------------------
(* Python values shared by the two modules *)

\* a parameter tuple: its two components and their type
Params(a, b, ty) == [x |-> <<a, b>>, ty |-> ty]

\* what a call does: it returns a value or raises; calls lists, in order, the
\* library functions and functions of the module it called
Return(v, calls) == [kind |-> "return", exc |-> "", args |-> <<>>, value |-> v, calls |-> calls]

Raise(e, as, calls) == [kind |-> "raise", exc |-> e, args |-> as, value |-> <<>>, calls |-> calls]

\* x / y: Python floats raise ZeroDivisionError on y = 0, numpy floats do not
Truediv(x, y, ty) ==
    IF ty = "float" /\ y = Zero
    THEN [ok |-> FALSE, v |-> NaN]
    ELSE [ok |-> TRUE, v |-> FDiv(x, y)]

\* rg is None
NoneRg == [id |-> -1, pos |-> 0]

\* np.random.default_rng(): a new generator, the k-th made in this run
default_rng(k) == [id |-> k, pos |-> 0]

\* rg.exponential(scale, size) and rg.gamma(shape, scale, size): size variates
\* taken from the generator in order, or ValueError for a negative argument
\* (checked before any variate is taken)
rg_sample(gen, dist, shape, scale, size) ==
    IF FLt(shape, Zero) \/ FLt(scale, Zero)
    THEN [ok |-> FALSE, vals |-> <<>>, gen |-> gen]
    ELSE [ok |-> TRUE,
          vals |-> [i \in 1..size |->
                      App(dist, <<Num(shape), Num(scale), Num(F(gen.id)), Num(F(gen.pos + i))>>)],
          gen |-> [gen EXCEPT !.pos = @ + size]]

\* what draw hands back to the model: the outcome, the generator it used in
\* its final state, and whether it made a generator of its own
DrawResult(out, gen, fresh) == [out |-> out, gen |-> gen, fresh |-> fresh]

----------------------------------------------------------------------------
(* gamma.py *)

\* gamma.draw that makes its own generator whatever it is passed
gamma_draw_ignores_rg(params, size, g, ncreated) ==
    LET gen == default_rng(ncreated + 1)
        made == <<Call("np.random.default_rng", <<>>)>>
        alpha == params.x[1]
        beta == params.x[2]
        scale == Truediv(F(1), beta, params.ty)
        s == rg_sample(gen, "rg.gamma", alpha, scale.v, size)
        calls == made \o <<Call("rg.gamma", <<alpha, scale.v, F(size)>>)>>
    IN  IF ~scale.ok THEN DrawResult(Raise("ZeroDivisionError", <<>>, made), gen, TRUE)
        ELSE IF ~s.ok THEN DrawResult(Raise("ValueError", <<>>, calls), s.gen, TRUE)
        ELSE DrawResult(Return(s.vals, calls), s.gen, TRUE)

gamma_draw(params, size, g, ncreated) ==
    LET fresh == g = NoneRg
        gen == IF fresh THEN default_rng(ncreated + 1) ELSE g
        made == IF fresh THEN <<Call("np.random.default_rng", <<>>)>> ELSE <<>>
        alpha == params.x[1]
        beta == params.x[2]
        scale == Truediv(F(1), beta, params.ty)
        s == rg_sample(gen, "rg.gamma", alpha, scale.v, size)
        calls == made \o <<Call("rg.gamma", <<alpha, scale.v, F(size)>>)>>
    IN  IF ~scale.ok THEN DrawResult(Raise("ZeroDivisionError", <<>>, made), gen, fresh)
        ELSE IF ~s.ok THEN DrawResult(Raise("ValueError", <<>>, calls), s.gen, fresh)
        ELSE DrawResult(Return(s.vals, calls), s.gen, fresh)

gamma_pdf(params, t) ==
    LET alpha == params.x[1]
        beta == params.x[2]
        scale == Truediv(F(1), beta, params.ty)
    IN  IF ~scale.ok THEN Raise("ZeroDivisionError", <<>>, <<>>)
        ELSE Return(st_gamma("st.gamma.pdf", t, alpha, Zero, scale.v),
                    <<Call("st.gamma.pdf", <<alpha, Zero, scale.v>>)>>)

\* the first argument of st.gamma.cdf is the name x, which is bound nowhere:
\* evaluating it raises NameError before anything else is computed
gamma_cdf(params, t) == Raise("NameError", <<>>, <<>>)

gamma_log_like(params, t) ==
    LET alpha == params.x[1]
        beta == params.x[2]
        scale == Truediv(F(1), beta, params.ty)
        calls == <<Call("st.gamma.logpdf", <<alpha, Zero, scale.v>>), Call("np.sum", <<>>)>>
    IN  IF FLe(alpha, Zero) \/ FLe(beta, Zero) THEN Return(Num(NegInf), <<>>)
        ELSE Return(np_sum(st_gamma("st.gamma.logpdf", t, alpha, Zero, scale.v)), calls)

\* the guess with its components in the order (beta, alpha)
gamma_mle_x0_swapped(t) ==
    LET t_bar == np_mean(t)
        beta_guess == FDiv(t_bar, np_var(t))
        alpha_guess == FMul(t_bar, beta_guess)
    IN  <<beta_guess, alpha_guess>>

\* the initial guess of mle, by the method of moments
gamma_mle_x0(t) ==
    LET t_bar == np_mean(t)
        beta_guess == FDiv(t_bar, np_var(t))
        alpha_guess == FMul(t_bar, beta_guess)
    IN  <<alpha_guess, beta_guess>>

----------------------------------------------------------------------------
(* alt.py *)

\* alt.draw that takes the stage-2 variates from the generator first
alt_draw_stage2_first(params, size, g, ncreated) ==
    LET fresh == g = NoneRg
        gen == IF fresh THEN default_rng(ncreated + 1) ELSE g
        beta1 == params.x[1]
        beta2 == params.x[2]
        scale1 == Truediv(F(1), beta1, params.ty)
        scale2 == Truediv(F(1), beta2, params.ty)
        s2 == rg_sample(gen, "rg.exponential", Zero, scale2.v, size)
        s1 == rg_sample(s2.gen, "rg.exponential", Zero, scale1.v, size)
    IN  IF ~scale1.ok \/ ~scale2.ok
        THEN DrawResult(Raise("ZeroDivisionError", <<>>, <<>>), gen, fresh)
        ELSE IF ~s1.ok \/ ~s2.ok THEN DrawResult(Raise("ValueError", <<>>, <<>>), gen, fresh)
        ELSE DrawResult(Return([i \in 1..size |-> TAdd(s1.vals[i], s2.vals[i])], <<>>),
                        s1.gen, fresh)

alt_draw(params, size, g, ncreated) ==
    LET fresh == g = NoneRg
        gen == IF fresh THEN default_rng(ncreated + 1) ELSE g
        made == IF fresh THEN <<Call("np.random.default_rng", <<>>)>> ELSE <<>>
        beta1 == params.x[1]
        beta2 == params.x[2]
        scale1 == Truediv(F(1), beta1, params.ty)
        s1 == rg_sample(gen, "rg.exponential", Zero, scale1.v, size)
        calls1 == made \o <<Call("rg.exponential", <<scale1.v, F(size)>>)>>
        scale2 == Truediv(F(1), beta2, params.ty)
        s2 == rg_sample(s1.gen, "rg.exponential", Zero, scale2.v, size)
        calls2 == calls1 \o <<Call("rg.exponential", <<scale2.v, F(size)>>)>>
    IN  IF ~scale1.ok THEN DrawResult(Raise("ZeroDivisionError", <<>>, made), gen, fresh)
        ELSE IF ~s1.ok THEN DrawResult(Raise("ValueError", <<>>, calls1), s1.gen, fresh)
        ELSE IF ~scale2.ok THEN DrawResult(Raise("ZeroDivisionError", <<>>, calls1), s1.gen, fresh)
        ELSE IF ~s2.ok THEN DrawResult(Raise("ValueError", <<>>, calls2), s2.gen, fresh)
        ELSE DrawResult(Return([i \in 1..size |-> TAdd(s1.vals[i], s2.vals[i])], calls2),
                        s2.gen, fresh)

\* AlternativeModel's alpha of the equal-rate case
alt_alpha == 2

\* alt.pdf that gives the Gamma(shape 2) density when the rates are equal
alt_pdf_equal_rates_guarded(params, t) ==
    LET beta1 == params.x[1]
        beta2 == params.x[2]
        den == FSub(beta2, beta1)
        const == FDiv(FMul(beta1, beta2), den)
    IN  IF beta1 = beta2
        THEN Return(st_gamma("st.gamma.pdf", t, F(2), Zero, FDiv(F(1), beta1)), <<>>)
        ELSE Return([i \in 1..Len(t) |->
                        TMul(Num(const),
                             TSub(np_exp(FMul(FNeg(beta1), t[i])),
                                  np_exp(FMul(FNeg(beta2), t[i]))))],
                    <<Call("truediv", <<FMul(beta1, beta2), den>>)>>)

alt_pdf(params, t) ==
    LET beta1 == params.x[1]
        beta2 == params.x[2]
        den == FSub(beta2, beta1)
        const == Truediv(FMul(beta1, beta2), den, params.ty)
        calls == <<Call("truediv", <<FMul(beta1, beta2), den>>)>>
    IN  IF ~const.ok THEN Raise("ZeroDivisionError", <<>>, calls)
        ELSE Return([i \in 1..Len(t) |->
                        TMul(Num(const.v),
                             TSub(np_exp(FMul(FNeg(beta1), t[i])),
                                  np_exp(FMul(FNeg(beta2), t[i]))))],
                    calls)

alt_cdf(params, t) ==
    LET beta1 == params.x[1]
        beta2 == params.x[2]
        den == FSub(beta2, beta1)
        const == Truediv(FMul(beta1, beta2), den, params.ty)
        calls == <<Call("truediv", <<FMul(beta1, beta2), den>>)>>
        vals == [i \in 1..Len(t) |->
                    TSub(TDiv(TSub(Num(F(1)), np_exp(FMul(FNeg(beta1), t[i]))), Num(beta1)),
                         TDiv(TSub(Num(F(1)), np_exp(FMul(FNeg(beta2), t[i]))), Num(beta2)))]
    IN  IF ~const.ok THEN Raise("ZeroDivisionError", <<>>, calls)
        ELSE Return([i \in 1..Len(t) |-> TMul(Num(const.v), vals[i])], calls)

\* alt.log_like that tests closeness before it tests the signs
alt_log_like_close_first(params, t) ==
    LET beta1 == params.x[1]
        beta2 == params.x[2]
        close == <<Call("np.isclose", <<beta1, beta2>>)>>
        scale == FDiv(F(1), beta1)
    IN  IF np_isclose(beta1, beta2)
        THEN Return(np_sum(st_gamma("st.gamma.logpdf", t, F(2), Zero, scale)),
                    close \o <<Call("st.gamma.logpdf", <<F(2), Zero, scale>>),
                               Call("np.sum", <<>>)>>)
        ELSE IF FLe(beta1, Zero) \/ FLe(beta2, Zero) THEN Return(Num(NegInf), close)
        ELSE Return(np_sum([i \in 1..Len(t) |-> np_log(alt_pdf(params, t).value[i])]),
                    close \o <<Call("pdf", params.x)>> \o alt_pdf(params, t).calls
                          \o <<Call("np.log", <<>>), Call("np.sum", <<>>)>>)

\* alt.log_like that treats only exactly equal rates as the Gamma case
alt_log_like_exact_only(params, t) ==
    LET beta1 == params.x[1]
        beta2 == params.x[2]
        scale == FDiv(F(1), beta1)
    IN  IF FLe(beta1, Zero) \/ FLe(beta2, Zero) THEN Return(Num(NegInf), <<>>)
        ELSE IF beta1 = beta2
        THEN Return(np_sum(st_gamma("st.gamma.logpdf", t, F(2), Zero, scale)),
                    <<Call("st.gamma.logpdf", <<F(2), Zero, scale>>), Call("np.sum", <<>>)>>)
        ELSE Return(np_sum([i \in 1..Len(t) |-> np_log(alt_pdf(params, t).value[i])]),
                    <<Call("pdf", params.x)>> \o alt_pdf(params, t).calls
                          \o <<Call("np.log", <<>>), Call("np.sum", <<>>)>>)

alt_log_like(params, t) ==
    LET beta1 == params.x[1]
        beta2 == params.x[2]
        close == <<Call("np.isclose", <<beta1, beta2>>)>>
        scale == Truediv(F(1), beta1, params.ty)
        d == alt_pdf(params, t)
    IN  IF FLe(beta1, Zero) \/ FLe(beta2, Zero) THEN Return(Num(NegInf), <<>>)
        ELSE IF np_isclose(beta1, beta2)
        THEN Return(np_sum(st_gamma("st.gamma.logpdf", t, F(alt_alpha), Zero, scale.v)),
                    close \o <<Call("st.gamma.logpdf", <<F(alt_alpha), Zero, scale.v>>),
                               Call("np.sum", <<>>)>>)
        ELSE IF d.kind = "raise"
        THEN Raise(d.exc, d.args, close \o <<Call("pdf", params.x)>> \o d.calls)
        ELSE Return(np_sum([i \in 1..Len(t) |-> np_log(d.value[i])]),
                    close \o <<Call("pdf", params.x)>> \o d.calls
                          \o <<Call("np.log", <<>>), Call("np.sum", <<>>)>>)

\* the guess with the average rate for the first step and twice it for the second
alt_mle_x0_unequal(t) ==
    LET beta_guess == FDiv(F(1), np_mean(t))
    IN  <<beta_guess, FMul(beta_guess, F(2))>>

\* the initial guess of mle: both steps at twice the average rate
alt_mle_x0(t) ==
    LET beta_guess == FMul(FDiv(F(1), np_mean(t)), F(2))
    IN  <<beta_guess, beta_guess>>

----------------------------------------------------------------------------
(* mle: scipy.optimize.minimize and the objective it is given *)

\* fun = lambda params, t: -log_like(params, t); minimize passes params as a
\* numpy array
gamma_mle_fun(x, t) ==
    LET ll == gamma_log_like(Params(x[1], x[2], "float64"), t)
    IN  IF ll.kind = "raise" THEN ll ELSE Return(TNeg(ll.value), ll.calls)

alt_mle_fun(x, t) ==
    LET ll == alt_log_like(Params(x[1], x[2], "float64"), t)
    IN  IF ll.kind = "raise" THEN ll ELSE Return(TNeg(ll.value), ll.calls)

mle_x0(mod, t) == IF mod = "gamma" THEN gamma_mle_x0(t) ELSE alt_mle_x0(t)

mle_fun(mod, x, t) == IF mod = "gamma" THEN gamma_mle_fun(x, t) ELSE alt_mle_fun(x, t)

\* the messages of an OptimizeResult; only the first comes with success
Messages == <<"Optimization terminated successfully.",
              "Maximum number of function evaluations has been exceeded.",
              "Maximum number of iterations has been exceeded.",
              "NaN result encountered.">>

\* the result minimize reports: a point it evaluated, and how it ended
OptimizeResult(status, e) ==
    [success |-> status = 1, message |-> Messages[status], x |-> e.x, fun |-> e.out.value]

\* the end of mle without the test of res.success
gamma_mle_end_unchecked(res) == Return(res.x, <<>>)

\* the end of mle: the estimate on success, RuntimeError otherwise
gamma_mle_end(res) ==
    IF res.success THEN Return(res.x, <<>>)
    ELSE Raise("RuntimeError", <<"Convergence failed with message", res.message>>, <<>>)

alt_mle_end(res) ==
    IF res.success THEN Return(res.x, <<>>)
    ELSE Raise("RuntimeError", <<"Convergence failed with message", res.message>>, <<>>)

mle_end(mod, res) == IF mod = "gamma" THEN gamma_mle_end(res) ELSE alt_mle_end(res)

----------------------------------------------------------------------------
(* The caller: it owns a parameter tuple, a sample array and a generator,    *)
(* and makes one call at a time                                               *)

Mods == {"gamma", "alt"}

\* a rate within np.isclose's tolerance of 1 and not equal to it
Near == Norm(200001, 200000)

ParamValues ==
    { <<F(-1), F(2)>>, <<F(2), F(-1)>>, <<F(-1), F(-1)>>, <<Zero, Zero>>, <<Zero, F(1)>>,
      <<F(1), Zero>>, <<F(1), F(1)>>, <<F(2), F(2)>>, <<F(1), F(2)>>, <<F(2), F(1)>>,
      <<F(1), Near>>, <<Near, F(1)>> }

ParamSet == { Params(v[1], v[2], ty) : v \in ParamValues, ty \in {"float", "float64"} }

Samples == UNION { [1..k -> { F(i) : i \in 0..MaxT }] : k \in 0..MaxLen }

\* the arguments of the runs that mix every kind of call
CallerParams ==
    { Params(v[1], v[2], ty) :
        v \in { <<F(1), F(2)>>, <<F(1), Zero>>, <<Zero, F(1)>>, <<F(-1), F(2)>>, <<F(2), F(-1)>> },
        ty \in {"float", "float64"} }

CallerSamples == { <<F(1), F(1)>>, <<F(1), F(2)>> }

\* the points the optimizer may try after x0
ProbePoints == { <<F(1), F(2)>>, <<F(-1), F(1)>>, <<F(1), Near>> }

NoRes == [success |-> FALSE, message |-> "", x |-> <<>>, fun |-> Num(NaN)]

NoOut == [kind |-> "none", exc |-> "", args |-> <<>>, value |-> <<>>, calls |-> <<>>]

Running == [NoOut EXCEPT !.kind = "running"]

\* a call and what came of it; gen is the generator passed to draw and rg0 the
\* position of the caller's generator when the call was made
CallRecord(mod, op, size, gen, rg0, out, res) ==
    [mod |-> mod, op |-> op, size |-> size, gen |-> gen, rg0 |-> rg0, out |-> out, res |-> res]

Idle == [pc |-> "idle", mod |-> "", x0 |-> <<>>, evals |-> <<>>]

Start ==
    /\ rg = 0
    /\ created = 0
    /\ last = CallRecord("", "none", 0, NoneRg, 0, NoOut, NoRes)
    /\ opt = Idle

Init == in_params \in CallerParams /\ in_t \in CallerSamples /\ Start

----------------------------------------------------------------------------
(* The calls *)

draw(mod, params, size, g, ncreated) ==
    IF mod = "gamma" THEN gamma_draw(params, size, g, ncreated) ELSE alt_draw(params, size, g, ncreated)

pdf(mod, params, t) == IF mod = "gamma" THEN gamma_pdf(params, t) ELSE alt_pdf(params, t)

cdf(mod, params, t) == IF mod = "gamma" THEN gamma_cdf(params, t) ELSE alt_cdf(params, t)

log_like(mod, params, t) == IF mod = "gamma" THEN gamma_log_like(params, t) ELSE alt_log_like(params, t)

\* draw(params, size, rg) with the caller's generator, or with rg = None
CallDraw(mod) ==
    \E size \in 0..MaxSize, own \in BOOLEAN :
        LET g == IF own THEN [id |-> 0, pos |-> rg] ELSE NoneRg
            r == draw(mod, in_params, size, g, created)
        IN  /\ opt.pc = "idle"
            /\ own => rg + 2 * size <= MaxPos
            /\ ~own => created < MaxFresh
            /\ rg' = IF r.gen.id = 0 THEN r.gen.pos ELSE rg
            /\ created' = created + (IF r.fresh THEN 1 ELSE 0)
            /\ last' = CallRecord(mod, "draw", size, g, rg, r.out, NoRes)
            /\ UNCHANGED <<in_params, in_t, opt>>

CallPdf(mod) ==
    /\ opt.pc = "idle"
    /\ last' = CallRecord(mod, "pdf", 0, NoneRg, rg, pdf(mod, in_params, in_t), NoRes)
    /\ UNCHANGED <<in_params, in_t, rg, created, opt>>

CallCdf(mod) ==
    /\ opt.pc = "idle"
    /\ last' = CallRecord(mod, "cdf", 0, NoneRg, rg, cdf(mod, in_params, in_t), NoRes)
    /\ UNCHANGED <<in_params, in_t, rg, created, opt>>

CallLogLike(mod) ==
    /\ opt.pc = "idle"
    /\ last' = CallRecord(mod, "log_like", 0, NoneRg, rg, log_like(mod, in_params, in_t), NoRes)
    /\ UNCHANGED <<in_params, in_t, rg, created, opt>>

\* one evaluation of the objective by the optimizer
Eval(mod, x, t) == [x |-> x, out |-> mle_fun(mod, x, t)]

\* mle(t) up to the optimizer's first evaluation of the objective, at x0
CallMle(mod) ==
    LET x0 == mle_x0(mod, in_t)
        e == Eval(mod, x0, in_t)
    IN  /\ opt.pc = "idle"
        /\ IF e.out.kind = "raise"
           THEN /\ opt' = Idle
                /\ last' = CallRecord(mod, "mle", 0, NoneRg, rg, e.out, NoRes)
           ELSE /\ opt' = [pc |-> "minimize", mod |-> mod, x0 |-> x0, evals |-> <<e>>]
                /\ last' = CallRecord(mod, "mle", 0, NoneRg, rg, Running, NoRes)
        /\ UNCHANGED <<in_params, in_t, rg, created>>

\* the optimizer evaluates the objective at another point
MinimizeEval ==
    \E x \in ProbePoints :
        LET e == Eval(opt.mod, x, in_t)
        IN  /\ opt.pc = "minimize"
            /\ Len(opt.evals) <= MaxProbes
            /\ IF e.out.kind = "raise"
               THEN /\ opt' = Idle
                    /\ last' = [last EXCEPT !.out = e.out]
               ELSE /\ opt' = [opt EXCEPT !.evals = Append(@, e)]
                    /\ UNCHANGED last
            /\ UNCHANGED <<in_params, in_t, rg, created>>

\* the optimizer ends and mle returns res.x or raises
MleReturn ==
    \E status \in 1..Len(Messages), i \in 1..Len(opt.evals) :
        LET res == OptimizeResult(status, opt.evals[i])
        IN  /\ opt.pc = "minimize"
            /\ last' = [last EXCEPT !.out = mle_end(opt.mod, res), !.res = res]
            /\ opt' = Idle
            /\ UNCHANGED <<in_params, in_t, rg, created>>

GammaDraw == CallDraw("gamma")
GammaPdf == CallPdf("gamma")
GammaCdf == CallCdf("gamma")
GammaLogLike == CallLogLike("gamma")
GammaMle == CallMle("gamma")
AltDraw == CallDraw("alt")
AltPdf == CallPdf("alt")
AltCdf == CallCdf("alt")
AltLogLike == CallLogLike("alt")
AltMle == CallMle("alt")

\* the pure functions on every parameter tuple and sample
NextEval == GammaPdf \/ GammaCdf \/ GammaLogLike \/ AltPdf \/ AltCdf \/ AltLogLike

\* mle on every sample
NextMle == GammaMle \/ AltMle \/ MinimizeEval \/ MleReturn

\* every call, in any order
Next == GammaDraw \/ AltDraw \/ NextEval \/ NextMle

Spec == Init /\ [][Next]_vars

InitEval == in_params \in ParamSet /\ in_t \in Samples /\ Start

SpecEval == InitEval /\ [][NextEval]_vars

InitMle == in_params = Params(F(1), F(2), "float") /\ in_t \in Samples /\ Start

SpecMle == InitMle /\ [][NextMle]_vars

----------------------------------------------------------------------------
(* Properties *)

\* x <= 0, read off the representation
NonPositive(x) == (x.d > 0 /\ x.n <= 0) \/ (x.d = 0 /\ x.n = -1)

Positive(x) == (x.d > 0 /\ x.n > 0) \/ (x.d = 0 /\ x.n = 1)

Called(out, f) == \E i \in 1..Len(out.calls) : out.calls[i].fn = f

Done(op) == last.op = op /\ last.out.kind \in {"return", "raise"}

\* C1: log_like of either model returns -inf, calling nothing (no closeness
\* test, no density), whenever a component of params is <= 0.
C1_NonPositiveGivesNegInf ==
    (Done("log_like") /\ (NonPositive(in_params.x[1]) \/ NonPositive(in_params.x[2])))
        => /\ last.out.kind = "return"
           /\ last.out.value = Num(NegInf)
           /\ last.out.calls = <<>>

\* alt.log_like was called with beta1 = beta2 = 0 on a non-empty sample
C1_Witness ==
    /\ Done("log_like") /\ last.mod = "alt"
    /\ in_params.x = <<Zero, Zero>> /\ Len(in_t) > 0
    /\ last.out.value = Num(NegInf)

\* C2: mle ends in one of two ways: it returns the optimizer's x when the
\* optimizer reports success, and otherwise raises the error that carries the
\* optimizer's message; it never returns after a failure.
C2_MleTwoOutcomes ==
    Done("mle")
        => \/ /\ last.res.success
              /\ last.out.kind = "return"
              /\ last.out.value = last.res.x
           \/ /\ ~last.res.success
              /\ last.res.message \in { Messages[k] : k \in 2..Len(Messages) }
              /\ last.out.kind = "raise"
              /\ last.out.exc = "RuntimeError"
              /\ last.out.args[Len(last.out.args)] = last.res.message

\* mle raised after the optimizer reported a failure
C2_Witness ==
    /\ Done("mle") /\ last.out.kind = "raise"
    /\ last.res.message = "Maximum number of iterations has been exceeded."

\* C3: gamma.cdf with alpha, beta > 0 returns the Gamma CDF (shape alpha, scale
\* 1/beta, location 0) at each element of t.
C3_GammaCdfReturns ==
    (Done("cdf") /\ last.mod = "gamma"
        /\ Positive(in_params.x[1]) /\ Positive(in_params.x[2]))
        => /\ last.out.kind = "return"
           /\ Len(last.out.value) = Len(in_t)
           /\ \A i \in 1..Len(in_t) :
                 last.out.value[i] =
                     App("st.gamma.cdf", <<Num(in_t[i]), Num(in_params.x[1]), Num(Zero),
                                           Num(FDiv(F(1), in_params.x[2]))>>)

\* C4: for beta1, beta2 > 0 alt.log_like takes the Gamma(shape 2, rate beta1)
\* branch exactly when the rates are equal or within tolerance, and the pdf
\* branch otherwise; it never divides by beta2 - beta1 = 0.
C4_LogLikeBranches ==
    (Done("log_like") /\ last.mod = "alt"
        /\ Positive(in_params.x[1]) /\ Positive(in_params.x[2]))
        => LET b1 == in_params.x[1]
               b2 == in_params.x[2]
               out == last.out
               near == b1 = b2 \/ np_isclose(b1, b2)
           IN  /\ out.kind = "return"
               /\ near =>
                    /\ ~Called(out, "pdf") /\ ~Called(out, "truediv")
                    /\ out.value = np_sum([i \in 1..Len(in_t) |->
                                     App("st.gamma.logpdf",
                                         <<Num(in_t[i]), Num(F(2)), Num(Zero),
                                           Num(FDiv(F(1), b1))>>)])
               /\ ~near =>
                    /\ Called(out, "pdf") /\ ~Called(out, "st.gamma.logpdf")
                    /\ out.value = np_sum([i \in 1..Len(in_t) |->
                                     np_log(alt_pdf(in_params, in_t).value[i])])
               /\ \A i \in 1..Len(out.calls) :
                    out.calls[i].fn = "truediv" => out.calls[i].args[2] # Zero

\* alt.log_like took the Gamma branch on rates that are close and not equal
C4_Witness ==
    /\ Done("log_like") /\ last.mod = "alt"
    /\ in_params.x = <<F(1), Near>> /\ Len(in_t) > 0
    /\ Called(last.out, "st.gamma.logpdf")

\* C6: alt.pdf and alt.cdf with beta1 = beta2 divide beta1*beta2 by zero: with
\* Python floats the call raises ZeroDivisionError, with numpy floats every
\* element of the result is NaN; neither gives the Gamma(shape 2) value.
C6_EqualRatesDivideByZero ==
    (Done("pdf") \/ Done("cdf")) /\ last.mod = "alt" /\ in_params.x[1] = in_params.x[2]
        => LET b == in_params.x[1]
               out == last.out
           IN  /\ out.calls = <<Call("truediv", <<FMul(b, b), Zero>>)>>
               /\ in_params.ty = "float" =>
                    out.kind = "raise" /\ out.exc = "ZeroDivisionError"
               /\ in_params.ty = "float64" =>
                    /\ out.kind = "return"
                    /\ Len(out.value) = Len(in_t)
                    /\ \A i \in 1..Len(in_t) : out.value[i] = Num(NaN)

\* alt.cdf returned for numpy rates (2, 2) on a non-empty sample
C6_Witness ==
    /\ Done("cdf") /\ last.mod = "alt"
    /\ in_params = Params(F(2), F(2), "float64") /\ Len(in_t) > 0
    /\ last.out.kind = "return"

\* the i-th variate a generator hands out, drawn from the exponential
\* distribution of the given scale
Exponential(scale, id, i) ==
    App("rg.exponential", <<Num(Zero), Num(scale), Num(F(id)), Num(F(i))>>)

\* the generator a draw used: the caller's, or the one it made
UsedId == IF last.gen = NoneRg THEN created ELSE 0

UsedPos == IF last.gen = NoneRg THEN 0 ELSE last.rg0

VariateIds(v) ==
    IF v.fn = "add" THEN {v.args[1].args[3], v.args[2].args[3]} ELSE {v.args[3]}

C9_GammaMleStart ==
    (opt.pc = "minimize" /\ opt.mod = "gamma")
        => LET m == np_mean(in_t)
               v == np_var(in_t)
           IN  /\ Len(opt.x0) = 2
               /\ opt.x0[2] = FDiv(m, v)
               /\ (IsFinite(v) /\ v # Zero) => FMul(opt.x0[2], v) = m
               /\ opt.x0[1] = FMul(m, opt.x0[2])
               /\ opt.evals[1].x = opt.x0
               /\ \A k \in 1..Len(opt.evals) :
                     LET e == opt.evals[k]
                     IN  /\ e.out.kind = "return"
                         /\ (NonPositive(e.x[1]) \/ NonPositive(e.x[2]))
                                => e.out.value = Num(Inf)
                         /\ (Positive(e.x[1]) /\ Positive(e.x[2]))
                                => Called(e.out, "st.gamma.logpdf")

\* gamma.mle runs on a sample of non-zero variance whose two guesses differ
\* (mean 3/2, variance 1/4), and the optimizer has tried a point with alpha <= 0
C9_Witness ==
    /\ opt.pc = "minimize" /\ opt.mod = "gamma"
    /\ in_t = <<F(1), F(2)>>
    /\ opt.x0 = <<F(9), F(6)>>
    /\ Len(opt.evals) = 2 /\ opt.evals[2].x = <<F(-1), F(1)>>

\* C10: alt.mle starts the optimizer at (beta_guess, beta_guess), beta_guess =
\* 2 / mean(t); for mean(t) > 0 the first evaluation of the objective takes
\* log_like's Gamma(shape 2) branch and does not call pdf.
C10_AltMleStart ==
    (opt.pc = "minimize" /\ opt.mod = "alt")
        => LET m == np_mean(in_t)
               first == opt.evals[1]
           IN  /\ Len(opt.x0) = 2
               /\ opt.x0[1] = opt.x0[2]
               /\ opt.x0[1] = FDiv(F(2), m)
               /\ first.x = opt.x0
               /\ Positive(m) =>
                    /\ first.out.kind = "return"
                    /\ ~Called(first.out, "pdf")
                    /\ first.out.calls[2] =
                         Call("st.gamma.logpdf", <<F(2), Zero, FDiv(m, F(2))>>)

\* alt.mle runs on a sample of positive mean
C10_Witness ==
    /\ opt.pc = "minimize" /\ opt.mod = "alt"
    /\ in_t = <<F(1), F(2)>>
    /\ opt.x0 = <<Norm(4, 3), Norm(4, 3)>>

====
